---- MODULE Spec2Model ----
(***************************************************************************)
(* ChatClient of src/lib/chat.ts: getChatResponse and getChatStream.       *)
(*                                                                         *)
(* Text is a sequence of one-character strings.  JSON values are tagged    *)
(* records; JSONStringify and JSONParse are computed on the characters.    *)
(***************************************************************************)
EXTENDS Integers, Sequences, FiniteSets

(***************************************************************************)
(* JavaScript values as far as the client touches them.                    *)
(***************************************************************************)
Undefined == [t |-> "undefined"]
JNull == [t |-> "null"]
JBool(b) == [t |-> "bool", b |-> b]
\* a number is kept as its shortest decimal literal, e.g. <<"0", ".", "7">>
JNum(lit) == [t |-> "num", lit |-> lit]
JStr(s) == [t |-> "str", s |-> s]
JArr(items) == [t |-> "arr", items |-> items]
\* members: a sequence of [k |-> key text, v |-> value], in property order
JObj(members) == [t |-> "obj", members |-> members]

Member(k, v) == [k |-> k, v |-> v]

Digits == {"0", "1", "2", "3", "4", "5", "6", "7", "8", "9"}
Whitespace == {" ", "\t", "\n", "\r"}

\* ToBoolean
Truthy(v) ==
    CASE v.t = "undefined" -> FALSE
      [] v.t = "null" -> FALSE
      [] v.t = "bool" -> v.b
      [] v.t = "num" -> \E i \in 1..Len(v.lit) : v.lit[i] \in Digits \ {"0"}
      [] v.t = "str" -> v.s # <<>>
      [] OTHER -> TRUE

\* index of the last member of an object with key k, 0 if there is none
RECURSIVE FindKey(_, _, _)
FindKey(members, k, i) ==
    IF i = 0 THEN 0
    ELSE IF members[i].k = k THEN i
    ELSE FindKey(members, k, i - 1)

\* v?.k : the property k of v, undefined when v has no such property
Get(v, k) ==
    IF v.t = "obj" /\ FindKey(v.members, k, Len(v.members)) # 0
    THEN v.members[FindKey(v.members, k, Len(v.members))].v
    ELSE Undefined

\* whether v has the own property k
Has(v, k) == v.t = "obj" /\ FindKey(v.members, k, Len(v.members)) # 0

\* v.k throws a TypeError when v is null or undefined
Nullish(v) == v.t \in {"undefined", "null"}

\* v[0]
First(v) ==
    CASE v.t = "arr" -> IF v.items = <<>> THEN Undefined ELSE v.items[1]
      [] v.t = "str" -> IF v.s = <<>> THEN Undefined ELSE JStr(<<v.s[1]>>)
      [] OTHER -> Get(v, <<"0">>)

\* Array.isArray
IsArray(v) == v.t = "arr"

RECURSIVE JoinTexts(_, _)
JoinTexts(texts, sep) ==
    IF texts = <<>> THEN <<>>
    ELSE IF Len(texts) = 1 THEN texts[1]
    ELSE texts[1] \o sep \o JoinTexts(Tail(texts), sep)

\* ToString of a value, as a template literal or the Error constructor applies it
RECURSIVE StringOf(_)
StringOf(v) ==
    CASE v.t = "undefined" -> <<"u", "n", "d", "e", "f", "i", "n", "e", "d">>
      [] v.t = "null" -> <<"n", "u", "l", "l">>
      [] v.t = "bool" -> IF v.b THEN <<"t", "r", "u", "e">>
                                ELSE <<"f", "a", "l", "s", "e">>
      [] v.t = "num" -> v.lit
      [] v.t = "str" -> v.s
      [] v.t = "arr" ->
           JoinTexts([i \in 1..Len(v.items) |->
                         IF Nullish(v.items[i]) THEN <<>>
                         ELSE StringOf(v.items[i])], <<",">>)
      [] OTHER -> <<"[", "o", "b", "j", "e", "c", "t", " ",
                    "O", "b", "j", "e", "c", "t", "]">>

\* new Error(m): an absent message leaves the message empty
NewError(m) ==
    [name |-> "Error", message |-> IF m.t = "undefined" THEN <<>> ELSE StringOf(m)]

(***************************************************************************)
(* JSON.stringify                                                          *)
(***************************************************************************)
Quoted(s) == <<"\"">> \o s \o <<"\"">>

\* the members JSON.stringify writes: those whose value is not undefined
RECURSIVE Written(_)
Written(members) ==
    IF members = <<>> THEN <<>>
    ELSE IF Head(members).v.t = "undefined" THEN Written(Tail(members))
    ELSE <<Head(members)>> \o Written(Tail(members))

RECURSIVE JSONStringify(_)
JSONStringify(v) ==
    CASE v.t = "null" -> <<"n", "u", "l", "l">>
      [] v.t = "undefined" -> <<"n", "u", "l", "l">>   \* inside an array
      [] v.t = "bool" -> IF v.b THEN <<"t", "r", "u", "e">>
                                ELSE <<"f", "a", "l", "s", "e">>
      [] v.t = "num" -> v.lit
      [] v.t = "str" -> Quoted(v.s)
      [] v.t = "arr" ->
           <<"[">> \o JoinTexts([i \in 1..Len(v.items) |-> JSONStringify(v.items[i])],
                                <<",">>) \o <<"]">>
      [] OTHER ->
           LET ms == Written(v.members) IN
           <<"{">> \o JoinTexts([i \in 1..Len(ms) |->
                                    Quoted(ms[i].k) \o <<":">> \o JSONStringify(ms[i].v)],
                                <<",">>) \o <<"}">>

(***************************************************************************)
(* JSON.parse, on texts without escape sequences, signs and exponents.     *)
(* A parse step yields [ok, v, i]: the value read and the index after it.  *)
(***************************************************************************)
ParseFail == [ok |-> FALSE, v |-> JNull, i |-> 0]
ParseOk(v, i) == [ok |-> TRUE, v |-> v, i |-> i]

RECURSIVE SkipWs(_, _)
SkipWs(s, i) == IF i <= Len(s) /\ s[i] \in Whitespace THEN SkipWs(s, i + 1) ELSE i

StartsWith(s, i, w) == i + Len(w) - 1 <= Len(s) /\ SubSeq(s, i, i + Len(w) - 1) = w

\* index of the closing quote of a string whose text starts at i, 0 if none
RECURSIVE ScanString(_, _)
ScanString(s, i) ==
    IF i > Len(s) THEN 0
    ELSE IF s[i] = "\"" THEN i
    ELSE IF s[i] \in {"\t", "\n", "\r"} THEN 0
    ELSE ScanString(s, i + 1)

ParseString(s, i) ==
    LET j == ScanString(s, i + 1) IN
    IF j = 0 THEN ParseFail ELSE ParseOk(JStr(SubSeq(s, i + 1, j - 1)), j + 1)

RECURSIVE ScanDigits(_, _)
ScanDigits(s, i) == IF i <= Len(s) /\ s[i] \in Digits THEN ScanDigits(s, i + 1) ELSE i

\* the shortest literal of the same number: 1.50 is 1.5, 1.0 is 1
RECURSIVE Shortest(_)
Shortest(lit) ==
    IF \A i \in 1..Len(lit) : lit[i] # "." THEN lit
    ELSE IF lit[Len(lit)] = "." THEN SubSeq(lit, 1, Len(lit) - 1)
    ELSE IF lit[Len(lit)] = "0" THEN Shortest(SubSeq(lit, 1, Len(lit) - 1))
    ELSE lit

ParseNumber(s, i) ==
    LET intEnd == IF s[i] = "0" THEN i + 1 ELSE ScanDigits(s, i)
        fracEnd == IF intEnd <= Len(s) /\ s[intEnd] = "."
                   THEN ScanDigits(s, intEnd + 1) ELSE intEnd
    IN IF fracEnd = intEnd + 1 THEN ParseFail
       ELSE ParseOk(JNum(Shortest(SubSeq(s, i, fracEnd - 1))), fracEnd)

\* a repeated key keeps its first place and takes the later value
Put(members, k, v) ==
    LET at == FindKey(members, k, Len(members)) IN
    IF at = 0 THEN Append(members, Member(k, v))
    ELSE [members EXCEPT ![at] = Member(k, v)]

RECURSIVE ParseValue(_, _)
RECURSIVE ParseMembers(_, _, _)
RECURSIVE ParseElements(_, _, _)

\* i is where a key must start
ParseMembers(s, i, acc) ==
    IF i > Len(s) \/ s[i] # "\"" THEN ParseFail
    ELSE LET key == ParseString(s, i) IN
         IF ~key.ok THEN ParseFail
         ELSE LET colon == SkipWs(s, key.i) IN
              IF colon > Len(s) \/ s[colon] # ":" THEN ParseFail
              ELSE LET val == ParseValue(s, colon + 1) IN
                   IF ~val.ok THEN ParseFail
                   ELSE LET e == SkipWs(s, val.i)
                            acc2 == Put(acc, key.v.s, val.v)
                        IN IF e > Len(s) THEN ParseFail
                           ELSE IF s[e] = "}" THEN ParseOk(JObj(acc2), e + 1)
                           ELSE IF s[e] = "," THEN ParseMembers(s, SkipWs(s, e + 1), acc2)
                           ELSE ParseFail

\* i is where an element must start
ParseElements(s, i, acc) ==
    LET val == ParseValue(s, i) IN
    IF ~val.ok THEN ParseFail
    ELSE LET e == SkipWs(s, val.i)
             acc2 == Append(acc, val.v)
         IN IF e > Len(s) THEN ParseFail
            ELSE IF s[e] = "]" THEN ParseOk(JArr(acc2), e + 1)
            ELSE IF s[e] = "," THEN ParseElements(s, e + 1, acc2)
            ELSE ParseFail

ParseValue(s, i0) ==
    LET i == SkipWs(s, i0) IN
    IF i > Len(s) THEN ParseFail
    ELSE CASE s[i] = "{" ->
                LET j == SkipWs(s, i + 1) IN
                IF j <= Len(s) /\ s[j] = "}" THEN ParseOk(JObj(<<>>), j + 1)
                ELSE ParseMembers(s, j, <<>>)
           [] s[i] = "[" ->
                LET j == SkipWs(s, i + 1) IN
                IF j <= Len(s) /\ s[j] = "]" THEN ParseOk(JArr(<<>>), j + 1)
                ELSE ParseElements(s, j, <<>>)
           [] s[i] = "\"" -> ParseString(s, i)
           [] s[i] \in Digits -> ParseNumber(s, i)
           [] StartsWith(s, i, <<"n", "u", "l", "l">>) -> ParseOk(JNull, i + 4)
           [] StartsWith(s, i, <<"t", "r", "u", "e">>) -> ParseOk(JBool(TRUE), i + 4)
           [] StartsWith(s, i, <<"f", "a", "l", "s", "e">>) -> ParseOk(JBool(FALSE), i + 5)
           [] OTHER -> ParseFail

\* [ok |-> FALSE] stands for the SyntaxError JSON.parse throws
JSONParse(s) ==
    LET r == ParseValue(s, 1) IN
    IF r.ok /\ SkipWs(s, r.i) = Len(s) + 1 THEN [ok |-> TRUE, v |-> r.v]
    ELSE [ok |-> FALSE, v |-> JNull]


(***************************************************************************)
(* UTF-8.  A byte below 0x80 is written as its character; the one          *)
(* two-byte character of the model, U+00E9, is the bytes "C3" "A9".        *)
(***************************************************************************)
\* the concatenation of pieces[lo..hi]
RECURSIVE Concat(_, _, _)
Concat(pieces, lo, hi) ==
    IF lo > hi THEN <<>>
    ELSE IF lo = hi THEN pieces[lo]
    ELSE Concat(pieces, lo, (lo + hi) \div 2) \o Concat(pieces, (lo + hi) \div 2 + 1, hi)

\* the indices of s among those of the set at, in order
Indices(s, at) == SelectSeq([i \in 1..Len(s) |-> i], LAMBDA i : i \in at)

EncodeUTF8(s) ==
    Concat([i \in 1..Len(s) |-> IF s[i] = "U+00E9" THEN <<"C3", "A9">> ELSE <<s[i]>>],
           1, Len(s))

\* new TextDecoder("utf-8").decode(value): one call decodes one buffer and keeps
\* nothing for the next, so a sequence the buffer cuts short, and a continuation
\* byte with no lead byte before it, each decode to U+FFFD
Decode(bytes) ==
    LET Continues(i) == bytes[i] = "A9" /\ i > 1 /\ bytes[i - 1] = "C3"
        Starts(i) == ~Continues(i)
        at == Indices(bytes, {i \in 1..Len(bytes) : Starts(i)})
    IN [j \in 1..Len(at) |->
           CASE bytes[at[j]] = "C3" ->
                  IF at[j] < Len(bytes) /\ bytes[at[j] + 1] = "A9"
                  THEN "U+00E9" ELSE "U+FFFD"
             [] bytes[at[j]] = "A9" -> "U+FFFD"
             [] OTHER -> bytes[at[j]]]

(***************************************************************************)
(* String operations of the read loop.                                     *)
(***************************************************************************)
\* s.lastIndexOf("\n") + 1: the length of s up to and including its last "\n"
LastLineEnd(s) ==
    LET IsEnd(i) == s[i] = "\n"
        ends == Indices(s, {i \in 1..Len(s) : IsEnd(i)})
    IN IF ends = <<>> THEN 0 ELSE ends[Len(ends)]

\* s.split("\n")
Split(s) ==
    LET IsEnd(i) == s[i] = "\n"
        ends == Indices(s, {i \in 1..Len(s) : IsEnd(i)})
    IN [k \in 1..(Len(ends) + 1) |->
           SubSeq(s, IF k = 1 THEN 1 ELSE ends[k - 1] + 1,
                     IF k <= Len(ends) THEN ends[k] - 1 ELSE Len(s))]

\* .filter(Boolean) on strings: the empty string is dropped
RECURSIVE NonEmpty(_)
NonEmpty(lines) ==
    IF lines = <<>> THEN <<>>
    ELSE IF Head(lines) = <<>> THEN NonEmpty(Tail(lines))
    ELSE <<Head(lines)>> \o NonEmpty(Tail(lines))

DataPrefix == <<"d", "a", "t", "a", ":", " ">>

\* what "." of a regular expression does not match
LineTerminators == {"\n", "\r", "U+2028", "U+2029"}

\* with the prefix alone looked at, as line.startsWith("data: ") would
IsFramePrefixOnly(line) ==
    /\ Len(line) > Len(DataPrefix)
    /\ SubSeq(line, 1, Len(DataPrefix)) = DataPrefix

\* whether /^data: (\{.*\})$/ matches the line
IsFrame(line) ==
    /\ Len(line) >= Len(DataPrefix) + 2
    /\ SubSeq(line, 1, Len(DataPrefix)) = DataPrefix
    /\ line[Len(DataPrefix) + 1] = "{"
    /\ line[Len(line)] = "}"
    /\ \A i \in (Len(DataPrefix) + 2)..(Len(line) - 1) : line[i] \notin LineTerminators

\* the group the expression captures
Capture(line) == SubSeq(line, Len(DataPrefix) + 1, Len(line))

\* wholeLines.map(line => [...line.matchAll(re)][0]?.[1]).filter(Boolean)
RECURSIVE Matches(_)
Matches(wholeLines) ==
    IF wholeLines = <<>> THEN <<>>
    ELSE IF IsFrame(Head(wholeLines))
         THEN <<Capture(Head(wholeLines))>> \o Matches(Tail(wholeLines))
    ELSE Matches(Tail(wholeLines))

(***************************************************************************)
(* Names and texts of the program.                                         *)
(***************************************************************************)
kMessages == <<"m", "e", "s", "s", "a", "g", "e", "s">>
kTemperature == <<"t", "e", "m", "p", "e", "r", "a", "t", "u", "r", "e">>
kTopP == <<"t", "o", "p", "_", "p">>
kFrequencyPenalty ==
    <<"f", "r", "e", "q", "u", "e", "n", "c", "y", "_", "p", "e", "n", "a", "l", "t", "y">>
kPresencePenalty ==
    <<"p", "r", "e", "s", "e", "n", "c", "e", "_", "p", "e", "n", "a", "l", "t", "y">>
kMaxTokens == <<"m", "a", "x", "_", "t", "o", "k", "e", "n", "s">>
kStop == <<"s", "t", "o", "p">>
kStream == <<"s", "t", "r", "e", "a", "m">>
kSeed == <<"s", "e", "e", "d">>
kError == <<"e", "r", "r", "o", "r">>
kMessage == <<"m", "e", "s", "s", "a", "g", "e">>
kChoices == <<"c", "h", "o", "i", "c", "e", "s">>
kFinishReason == <<"f", "i", "n", "i", "s", "h", "_", "r", "e", "a", "s", "o", "n">>
kUsage == <<"u", "s", "a", "g", "e">>
kRole == <<"r", "o", "l", "e">>
kContent == <<"c", "o", "n", "t", "e", "n", "t">>

tStop == <<"s", "t", "o", "p">>
tInvalidResponse ==
    <<"I", "n", "v", "a", "l", "i", "d", " ", "r", "e", "s", "p", "o", "n", "s", "e">>
tRequestFailed == <<"R", "e", "q", "u", "e", "s", "t", " ", "f", "a", "i", "l", "e", "d">>
tChatStopped ==
    <<"C", "h", "a", "t", " ", "s", "t", "o", "p", "p", "e", "d", " ",
      "d", "u", "e", " ", "t", "o", " ">>

(***************************************************************************)
(* The request payload: the defaults, then the caller's config spread over *)
(* them.                                                                   *)
(***************************************************************************)
DefaultTemperature == JNum(<<"0", ".", "7">>)
DefaultTopP == JNum(<<"1">>)
DefaultFrequencyPenalty == JNum(<<"0">>)
DefaultPresencePenalty == JNum(<<"0">>)
DefaultMaxTokens == JNum(<<"6", "0">>)
DefaultStop == JStr(<<>>)

\* {...target, ...source}: each own property of source is put over target;
\* spreading undefined or null adds nothing
RECURSIVE SpreadInto(_, _)
SpreadInto(members, source) ==
    IF source = <<>> THEN members
    ELSE SpreadInto(Put(members, Head(source).k, Head(source).v), Tail(source))

Spread(members, v) == IF v.t = "obj" THEN SpreadInto(members, v.members) ELSE members

\* with the config spread first and the defaults after it
PayloadDefaultsLast(msgs, cfg) ==
    JObj(SpreadInto(Spread(<<>>, cfg),
                    <<Member(kMessages, msgs),
                      Member(kTemperature, DefaultTemperature),
                      Member(kTopP, DefaultTopP),
                      Member(kFrequencyPenalty, DefaultFrequencyPenalty),
                      Member(kPresencePenalty, DefaultPresencePenalty),
                      Member(kMaxTokens, DefaultMaxTokens),
                      Member(kStop, DefaultStop)>>))

Payload(msgs, cfg) ==
    JObj(Spread(<<Member(kMessages, msgs),
                  Member(kTemperature, DefaultTemperature),
                  Member(kTopP, DefaultTopP),
                  Member(kFrequencyPenalty, DefaultFrequencyPenalty),
                  Member(kPresencePenalty, DefaultPresencePenalty),
                  Member(kMaxTokens, DefaultMaxTokens),
                  Member(kStop, DefaultStop)>>, cfg))

\* body: JSON.stringify(payload), sent as UTF-8
ChatRequestBody(msgs, cfg) == EncodeUTF8(JSONStringify(Payload(msgs, cfg)))

\* body: JSON.stringify({ ...payload, stream: true })
StreamRequestBody(msgs, cfg) ==
    EncodeUTF8(JSONStringify(
        JObj(Put(Spread(<<>>, Payload(msgs, cfg)), kStream, JBool(TRUE)))))

(***************************************************************************)
(* Errors.  The message of an error the runtime raises (TypeError,         *)
(* SyntaxError, AbortError) is the engine's and is left empty.             *)
(***************************************************************************)
NoError == [name |-> "none", message |-> <<>>]
TypeError == [name |-> "TypeError", message |-> <<>>]
SyntaxError == [name |-> "SyntaxError", message |-> <<>>]
AbortError == [name |-> "AbortError", message |-> <<>>]

Thrown(e) == [thrown |-> TRUE, error |-> e, value |-> Undefined]
Value(v) == [thrown |-> FALSE, error |-> NoError, value |-> v]

(***************************************************************************)
(* getChatResponse, from the response body to the result.                  *)
(***************************************************************************)
\* result.choices[0]?.finish_reason, for choices that are not null or undefined
FinishReason(choices) ==
    IF Nullish(First(choices)) THEN Undefined ELSE Get(First(choices), kFinishReason)

\* without the check of the finish reason
ChatOutcomeAnyFinish(bodyBytes) ==
    LET parsed == JSONParse(Decode(bodyBytes))
        result == parsed.v
    IN IF ~parsed.ok THEN Thrown(SyntaxError)
       ELSE IF Nullish(result) THEN Thrown(TypeError)
       ELSE IF Truthy(Get(result, kError))
            THEN Thrown(NewError(Get(Get(result, kError), kMessage)))
       ELSE IF Nullish(Get(result, kChoices)) THEN Thrown(TypeError)
       ELSE IF Nullish(Get(result, kUsage)) THEN Thrown(TypeError)
       ELSE Value(result)

ChatOutcome(bodyBytes) ==
    LET parsed == JSONParse(Decode(bodyBytes))
        result == parsed.v
    IN IF ~parsed.ok THEN Thrown(SyntaxError)
       ELSE IF Nullish(result) THEN Thrown(TypeError)
       ELSE IF Truthy(Get(result, kError))
            THEN Thrown(NewError(Get(Get(result, kError), kMessage)))
       ELSE IF Nullish(Get(result, kChoices)) THEN Thrown(TypeError)
       ELSE IF FinishReason(Get(result, kChoices)) # JStr(tStop)
            THEN Thrown(NewError(JStr(tChatStopped
                                      \o StringOf(FinishReason(Get(result, kChoices))))))
       ELSE IF Nullish(Get(result, kUsage)) THEN Thrown(TypeError)
       ELSE Value(result)

(***************************************************************************)
(* getChatStream, one iteration of the loop over the matches.              *)
(***************************************************************************)
\* without the check of choices
ItemOutcomeUnchecked(match) ==
    LET parsed == JSONParse(match)
        item == parsed.v
    IN IF ~parsed.ok THEN Thrown(SyntaxError)
       ELSE IF Truthy(Get(Get(item, kError), kMessage))
            THEN Thrown(NewError(Get(Get(item, kError), kMessage)))
       ELSE Value(item)

ItemOutcome(match) ==
    LET parsed == JSONParse(match)
        item == parsed.v
    IN IF ~parsed.ok THEN Thrown(SyntaxError)
       ELSE IF Truthy(Get(Get(item, kError), kMessage))
            THEN Thrown(NewError(Get(Get(item, kError), kMessage)))
       ELSE IF ~IsArray(Get(item, kChoices)) THEN Thrown(NewError(JStr(tInvalidResponse)))
       ELSE Value(item)

\* unfinishedLine + chunk
CurrentWindow(unfinished, chunk) == unfinished \o chunk

\* with the slice taken at lastIndexOf("\n"), one character early
CarryFromNewline(window) ==
    SubSeq(window, IF LastLineEnd(window) = 0 THEN 1 ELSE LastLineEnd(window), Len(window))

\* currentWindow.slice(currentWindow.lastIndexOf("\n") + 1)
Carry(window) == SubSeq(window, LastLineEnd(window) + 1, Len(window))

\* currentWindow.slice(0, currentWindow.lastIndexOf("\n") + 1)
Complete(window) == SubSeq(window, 1, LastLineEnd(window))

\* .split("\n").filter(Boolean)
WholeLines(window) == NonEmpty(Split(Complete(window)))

(***************************************************************************)
(* Bounds and inputs.                                                      *)
(***************************************************************************)
\* lines of a stream
MaxLines == 2
\* fields a config overrides
MaxOverrides == 2

tUser == <<"u", "s", "e", "r">>
MsgsA == JArr(<<JObj(<<Member(kRole, JStr(tUser)), Member(kContent, JStr(<<"h", "i">>))>>)>>)
MsgsB == JArr(<<JObj(<<Member(kRole, JStr(tUser)), Member(kContent, JStr(<<"U+00E9">>))>>)>>)

\* the fields a config may carry, each with a value that is not the default;
\* max_tokens is carried with the value undefined
OverridePool ==
    <<Member(kTemperature, JNum(<<"0">>)),
      Member(kTopP, JNum(<<"0", ".", "5">>)),
      Member(kFrequencyPenalty, JNum(<<"1">>)),
      Member(kPresencePenalty, JNum(<<"2">>)),
      Member(kMaxTokens, Undefined),
      Member(kStop, JArr(<<JStr(<<"x">>)>>)),
      Member(kSeed, JNum(<<"7">>)),
      Member(kStream, JBool(FALSE)),
      Member(kMessages, JArr(<<>>))>>

RECURSIVE Pick(_, _, _)
Pick(pool, S, i) ==
    IF i > Len(pool) THEN <<>>
    ELSE IF i \in S THEN <<pool[i]>> \o Pick(pool, S, i + 1)
    ELSE Pick(pool, S, i + 1)

\* no config argument, or an object of up to MaxOverrides fields
Configs ==
    {Undefined} \cup
    {JObj(Pick(OverridePool, S, 1)) :
        S \in {T \in SUBSET (1..Len(OverridePool)) : Cardinality(T) <= MaxOverrides}}

\* payloads of stream frames
EventA == JObj(<<Member(kChoices, JArr(<<>>))>>)
EventB == JObj(<<Member(kChoices, JArr(<<JStr(<<"U+00E9">>)>>))>>)
ErrorFrame == JObj(<<Member(kError, JObj(<<Member(kMessage, JStr(<<"b">>))>>))>>)
EmptyErrorFrame ==
    JObj(<<Member(kError, JObj(<<Member(kMessage, JStr(<<>>))>>)),
           Member(kChoices, JArr(<<>>))>>)
NullChoices == JObj(<<Member(kChoices, JNull)>>)
NoChoices == JObj(<<>>)

DataLine(v) == DataPrefix \o JSONStringify(v)

BadJson == DataPrefix \o <<"{", "x", "}">>
DoneLine == DataPrefix \o <<"[", "D", "O", "N", "E", "]">>
CrLine == DataLine(NoChoices) \o <<"\r">>

\* lines a server may send, without their terminators: the framing of the
\* stream (events, a blank line, the [DONE] line, a line that ends in "\r\n"),
FramingLines == <<DataLine(EventA), DataLine(EventB), BadJson, <<>>, DoneLine, CrLine>>

\* a few of them,
LiveLines == <<DataLine(EventA), BadJson, <<>>>>

\* and the frames that end a stream
FaultLines ==
    <<DataLine(EventA), DataLine(ErrorFrame), DataLine(EmptyErrorFrame),
      DataLine(NullChoices), DataLine(NoChoices), BadJson>>

\* the lines, each followed by "\n", but for the last one when ~terminated
RECURSIVE StreamText(_, _)
StreamText(lines, terminated) ==
    IF lines = <<>> THEN <<>>
    ELSE Head(lines)
         \o (IF Len(lines) > 1 \/ terminated THEN <<"\n">> ELSE <<>>)
         \o StreamText(Tail(lines), terminated)

\* the bytes of the streams of up to MaxLines lines of the pool
StreamTexts(pool) ==
    {EncodeUTF8(StreamText([i \in DOMAIN ids |-> pool[ids[i]]], t)) :
        ids \in UNION {[1..n -> 1..Len(pool)] : n \in 0..MaxLines}, t \in BOOLEAN}

\* bodies of a non-streaming response
kTotalTokens == <<"t", "o", "t", "a", "l", "_", "t", "o", "k", "e", "n", "s">>
tLength == <<"l", "e", "n", "g", "t", "h">>
tContentFilter ==
    <<"c", "o", "n", "t", "e", "n", "t", "_", "f", "i", "l", "t", "e", "r">>
Choice(reason, content) ==
    JObj(<<Member(kFinishReason, reason),
           Member(kMessage, JObj(<<Member(kContent, content)>>))>>)

BodyErrors ==
    {Undefined, JNull, JObj(<<>>),
     JObj(<<Member(kMessage, JStr(<<"b">>))>>),
     JObj(<<Member(kMessage, JStr(<<>>))>>)}
BodyChoices ==
    {Undefined, JArr(<<>>),
     JArr(<<Choice(JStr(tStop), JStr(<<"U+00E9">>))>>),
     JArr(<<Choice(JStr(tLength), JStr(<<"h", "i">>))>>),
     JArr(<<Choice(JStr(tContentFilter), Undefined)>>),
     JArr(<<Choice(JNull, JStr(<<"h", "i">>))>>)}
BodyUsages == {Undefined, JObj(<<Member(kTotalTokens, JNum(<<"3">>))>>)}

ResponseBodies ==
    {EncodeUTF8(JSONStringify(JObj(<<Member(kError, e), Member(kChoices, c),
                                     Member(kUsage, u)>>))) :
        e \in BodyErrors, c \in BodyChoices, u \in BodyUsages}
    \cup {<<"n", "u", "l", "l">>, <<"<", "h", "t", "m", "l", ">">>}

\* what the server answers a streaming request with
StreamResponses ==
    {[ok |-> TRUE, body |-> TRUE, status |-> <<"2", "0", "0">>, bytes |-> <<>>],
     [ok |-> TRUE, body |-> FALSE, status |-> <<"2", "0", "4">>, bytes |-> <<>>],
     [ok |-> FALSE, body |-> TRUE, status |-> <<"5", "0", "0">>, bytes |-> <<>>]}
NoResponse == [ok |-> FALSE, body |-> FALSE, status |-> <<>>, bytes |-> <<>>]

(***************************************************************************)
(* The state of one call.                                                  *)
(***************************************************************************)
VARIABLES
    method,          \* "getChatResponse" or "getChatStream"
    messages,        \* the messages argument
    config,          \* the config argument, Undefined when it is not given
    pc,              \* "start", "fetch", "read", "loop", "done", "failed"
    pulling,         \* the consumer of the generator awaits its next()
    request,         \* the body of the request in flight, <<>> when none is
    response,        \* the response fetch resolved with
    text,            \* getChatStream: the bytes of the response body
    pos,             \* how many of them the reader has delivered
    got,             \* history: the chunks decoded so far, concatenated
    fed,             \* history: the text handed to split so far, concatenated
    unfinishedLine,
    matches,         \* the matches of the current chunk still to be looped over
    nParsed,         \* history: how many matches JSON.parse was called on
    received,        \* the items yielded to the consumer
    error,           \* the error the call failed with
    result           \* getChatResponse: the value returned

vars ==
    <<method, messages, config, pc, pulling, request, response, text, pos, got, fed,
      unfinishedLine, matches, nParsed, received, error, result>>

reassembly == <<pos, got, fed, unfinishedLine, matches, nParsed, received>>
arguments == <<method, messages, config, text>>

Terminal == pc \in {"done", "failed"}

\* a call: streams drawn from a pool are read by a call without config, and
\* the calls over the configs are answered with an empty stream
Start(pool) ==
    /\ \/ /\ method = "getChatStream"
          /\ messages = MsgsA
          /\ config = Undefined
          /\ text \in StreamTexts(pool)
       \/ /\ method \in {"getChatResponse", "getChatStream"}
          /\ messages \in {MsgsA, MsgsB}
          /\ config \in Configs
          /\ text = <<>>
    /\ pc = "start"
    /\ pulling = FALSE
    /\ request = <<>>
    /\ response = NoResponse
    /\ pos = 0
    /\ got = <<>>
    /\ fed = <<>>
    /\ unfinishedLine = <<>>
    /\ matches = <<>>
    /\ nParsed = 0
    /\ received = <<>>
    /\ error = NoError
    /\ result = Undefined

Init == Start(FramingLines)

InitFaults == Start(FaultLines)

InitLive == Start(LiveLines)

\* the consumer calls next() on the generator
Pull ==
    /\ method = "getChatStream"
    /\ ~Terminal
    /\ ~pulling
    /\ pulling' = TRUE
    /\ UNCHANGED <<arguments, pc, request, response, reassembly, error, result>>

\* getChatResponse up to its fetch
SendChat ==
    /\ method = "getChatResponse"
    /\ pc = "start"
    /\ request' = ChatRequestBody(messages, config)
    /\ pc' = "fetch"
    /\ UNCHANGED <<arguments, pulling, response, reassembly, error, result>>

\* getChatStream up to its fetch
SendStream ==
    /\ method = "getChatStream"
    /\ pc = "start"
    /\ pulling
    /\ request' = StreamRequestBody(messages, config)
    /\ pc' = "fetch"
    /\ UNCHANGED <<arguments, pulling, response, reassembly, error, result>>

\* fetch rejects: the network failed, or the abort signal fired
FetchRejects ==
    /\ pc = "fetch"
    /\ \E e \in {TypeError, AbortError} :
          /\ method = "getChatResponse" => e = TypeError
          /\ error' = e
    /\ pc' = "failed"
    /\ pulling' = FALSE
    /\ request' = <<>>
    /\ UNCHANGED <<arguments, response, reassembly, result>>

\* getChatResponse from the response to its return or throw
ChatResolves ==
    /\ method = "getChatResponse"
    /\ pc = "fetch"
    /\ \E body \in ResponseBodies :
          /\ response' = [ok |-> TRUE, body |-> TRUE, status |-> <<"2", "0", "0">>,
                          bytes |-> body]
          /\ error' = ChatOutcome(body).error
          /\ result' = ChatOutcome(body).value
          /\ pc' = IF ChatOutcome(body).thrown THEN "failed" ELSE "done"
    /\ request' = <<>>
    /\ UNCHANGED <<arguments, pulling, reassembly>>

\* without the checks of stream.ok and stream.body
StreamResolvesUnchecked ==
    /\ method = "getChatStream"
    /\ pc = "fetch"
    /\ \E r \in StreamResponses : response' = r
    /\ pc' = "read"
    /\ request' = <<>>
    /\ UNCHANGED <<arguments, pulling, error, reassembly, result>>

\* getChatStream from the response to its first read
StreamResolves ==
    /\ method = "getChatStream"
    /\ pc = "fetch"
    /\ \E r \in StreamResponses :
          /\ response' = r
          /\ \/ /\ ~r.ok
                /\ error' = NewError(JStr(tRequestFailed \o <<":", " ">>
                                          \o r.status \o <<" ", " ">>))
                /\ pc' = "failed"
                /\ pulling' = FALSE
             \/ /\ r.ok
                /\ ~r.body
                /\ error' = NewError(JStr(tRequestFailed))
                /\ pc' = "failed"
                /\ pulling' = FALSE
             \/ /\ r.ok
                /\ r.body
                /\ pc' = "read"
                /\ UNCHANGED <<error, pulling>>
    /\ request' = <<>>
    /\ UNCHANGED <<arguments, reassembly, result>>

\* reader.read() resolves with a chunk of n bytes; the chunk is decoded, the
\* window is cut at its last "\n" and the matches of its whole lines are taken
ReadChunk ==
    /\ pc = "read"
    /\ \E n \in 1..(Len(text) - pos) :
          LET value == SubSeq(text, pos + 1, pos + n)
              chunk == Decode(value)
              currentWindow == CurrentWindow(unfinishedLine, chunk)
          IN /\ pos' = pos + n
             /\ got' = got \o chunk
             /\ unfinishedLine' = Carry(currentWindow)
             /\ fed' = fed \o Complete(currentWindow)
             /\ matches' = Matches(WholeLines(currentWindow))
    /\ pc' = "loop"
    /\ UNCHANGED <<arguments, pulling, request, response, nParsed, received, error, result>>

\* with the unfinished line looked at once more when the stream ends
ReadDoneFlush ==
    /\ pc = "read"
    /\ pos = Len(text)
    /\ pulling' = FALSE
    /\ LET last == Matches(NonEmpty(<<unfinishedLine>>)) IN
       IF last = <<>>
       THEN pc' = "done" /\ UNCHANGED <<nParsed, received, error>>
       ELSE /\ nParsed' = nParsed + 1
            /\ error' = ItemOutcome(last[1]).error
            /\ pc' = IF ItemOutcome(last[1]).thrown THEN "failed" ELSE "done"
            /\ received' = IF ItemOutcome(last[1]).thrown THEN received
                           ELSE Append(received, ItemOutcome(last[1]).value)
    /\ UNCHANGED <<arguments, request, response, pos, got, fed, unfinishedLine, matches,
                   result>>

\* reader.read() resolves with done: the loop is left and the generator returns
ReadDone ==
    /\ pc = "read"
    /\ pos = Len(text)
    /\ pc' = "done"
    /\ pulling' = FALSE
    /\ UNCHANGED <<arguments, request, response, reassembly, error, result>>

\* reader.read() rejects: the abort signal fired, or the connection broke
ReadRejects ==
    /\ pc = "read"
    /\ \E e \in {TypeError, AbortError} : error' = e
    /\ pc' = "failed"
    /\ pulling' = FALSE
    /\ UNCHANGED <<arguments, request, response, reassembly, result>>

\* the loop over the matches has none left: back to reader.read()
LoopEnds ==
    /\ pc = "loop"
    /\ pulling
    /\ matches = <<>>
    /\ pc' = "read"
    /\ UNCHANGED <<arguments, pulling, request, response, reassembly, error, result>>

\* one iteration of the loop throws
ItemThrows ==
    /\ pc = "loop"
    /\ pulling
    /\ matches # <<>>
    /\ ItemOutcome(Head(matches)).thrown
    /\ error' = ItemOutcome(Head(matches)).error
    /\ matches' = Tail(matches)
    /\ nParsed' = nParsed + 1
    /\ pc' = "failed"
    /\ pulling' = FALSE
    /\ UNCHANGED <<arguments, request, response, pos, got, fed, unfinishedLine,
                   received, result>>

\* one iteration of the loop yields its item; the generator is suspended
\* inside the loop until the consumer calls next() again
ItemYields ==
    /\ pc = "loop"
    /\ pulling
    /\ matches # <<>>
    /\ ~ItemOutcome(Head(matches)).thrown
    /\ received' = Append(received, ItemOutcome(Head(matches)).value)
    /\ matches' = Tail(matches)
    /\ nParsed' = nParsed + 1
    /\ pulling' = FALSE
    /\ UNCHANGED <<arguments, pc, request, response, pos, got, fed, unfinishedLine,
                   error, result>>

Next ==
    \/ Pull
    \/ SendChat
    \/ SendStream
    \/ FetchRejects
    \/ ChatResolves
    \/ StreamResolves
    \/ ReadChunk
    \/ ReadDone
    \/ ReadRejects
    \/ LoopEnds
    \/ ItemThrows
    \/ ItemYields

Spec == Init /\ [][Next]_vars

SpecFaults == InitFaults /\ [][Next]_vars

\* an async function or a resumed generator that can run its next step
Ready ==
    \/ pc = "start" /\ (method = "getChatResponse" \/ pulling)
    \/ pc = "loop" /\ pulling

\* The consumer keeps pulling, the transport settles every fetch, at the end
\* of the stream it signals the end or fails the read, and the event loop runs
\* what is ready.  The last two are the weak fairness of StreamResolves,
\* ChatResolves and FetchRejects, and of SendChat, SendStream, LoopEnds,
\* ItemThrows and ItemYields, written by what enables them: each of these
\* steps disables itself.
Fairness ==
    /\ WF_vars(Pull)
    /\ WF_vars(ReadDone \/ ReadRejects)
    /\ []<>(pc # "fetch")
    /\ []<>~Ready

LiveSpec == InitLive /\ [][Next]_vars /\ Fairness

(***************************************************************************)
(* What the properties are stated with.                                    *)
(***************************************************************************)
IsStream == method = "getChatStream"
IsChat == method = "getChatResponse"

\* the lines of s that have their "\n", in order, without it
TerminatedLines(s) ==
    LET IsEnd(i) == s[i] = "\n"
        ends == Indices(s, {i \in 1..Len(s) : IsEnd(i)})
    IN [k \in 1..Len(ends) |->
           SubSeq(s, IF k = 1 THEN 1 ELSE ends[k - 1] + 1, ends[k] - 1)]

\* what follows the last "\n" of s
Residual(s) ==
    LET IsEnd(i) == s[i] = "\n"
        ends == Indices(s, {i \in 1..Len(s) : IsEnd(i)})
    IN SubSeq(s, IF ends = <<>> THEN 1 ELSE ends[Len(ends)] + 1, Len(s))

\* a line of the form data: {...}
IsDataFrame(line) ==
    /\ Len(line) >= 8
    /\ SubSeq(line, 1, 7) = <<"d", "a", "t", "a", ":", " ", "{">>
    /\ line[Len(line)] = "}"
    /\ \A i \in 8..(Len(line) - 1) : line[i] \notin {"\n", "\r"}

\* the payloads of the data frames among the lines, in order
FramesOf(lines) ==
    LET frames == SelectSeq(lines, IsDataFrame)
    IN [i \in 1..Len(frames) |-> SubSeq(frames[i], 7, Len(frames[i]))]

\* the frames among the terminated lines of the text decoded so far
FramesGot == FramesOf(TerminatedLines(got))

\* the first n of them, n being capped by their number
FirstFrames(n) == SubSeq(FramesGot, 1, IF n <= Len(FramesGot) THEN n ELSE Len(FramesGot))

\* the payload decodes to an object that carries error.message
CarriesErrorMessage(v) == Has(v, kError) /\ Has(Get(v, kError), kMessage)

InvalidResponse == NewError(JStr(tInvalidResponse))

\* the loop over the matches threw: neither the transport nor the response did
LoopThrew ==
    /\ IsStream
    /\ pc = "failed"
    /\ response.ok
    /\ response.body
    /\ error.name \in {"Error", "SyntaxError"}

\* the events of the frames, as far as all of them are valid
EventsOf(frames) == [i \in 1..Len(frames) |-> JSONParse(frames[i]).v]

(***************************************************************************)
(* C1: for a well-formed stream (every line terminated) read to its end,   *)
(* however the bytes are cut into chunks, the events yielded are the       *)
(* payloads of the stream's frames, in order.                              *)
(***************************************************************************)
WellFormed(s) == s = <<>> \/ s[Len(s)] = "\n"

C1_PartitionIndependence ==
    (IsStream /\ pc = "done" /\ WellFormed(Decode(text)))
        => received = EventsOf(FramesOf(TerminatedLines(Decode(text))))

\* the same for the streams no chunk of which ends inside a character
NoCharacterCut == got = Decode(SubSeq(text, 1, pos))

PartitionIndependenceOfCharacters ==
    (IsStream /\ pc = "done" /\ WellFormed(Decode(text)) /\ NoCharacterCut)
        => received = EventsOf(FramesOf(TerminatedLines(Decode(text))))

(***************************************************************************)
(* C2: whenever a frame decodes to an object that carries error.message,   *)
(* the call fails with that message, and neither that frame nor a later    *)
(* one is yielded.                                                         *)
(***************************************************************************)
C2_ServerErrorAborts ==
    IsStream =>
        \A i \in 1..Len(FirstFrames(nParsed)) :
            LET p == JSONParse(FirstFrames(nParsed)[i]) IN
            (p.ok /\ CarriesErrorMessage(p.v))
                => /\ pc = "failed"
                   /\ error = NewError(Get(Get(p.v, kError), kMessage))
                   /\ i = nParsed
                   /\ Len(received) = i - 1

C4_NonFrameLinesInert ==
    IsStream =>
        /\ nParsed <= Len(FramesGot)
        /\ matches = SubSeq(FramesGot, nParsed + 1, Len(FramesGot))
        /\ received = EventsOf(FirstFrames(Len(received)))
        /\ Len(received) = IF LoopThrew THEN nParsed - 1 ELSE nParsed
        /\ FramesGot = <<>> => (received = <<>> /\ ~LoopThrew)

\* a stream read to its end in which an event stands among lines that are no
\* frames: the [DONE] line, or a line that ends in "\r\n"
C4_Witness ==
    /\ IsStream
    /\ pc = "done"
    /\ Len(received) = 1
    /\ Len(TerminatedLines(got)) = MaxLines
    /\ \E i \in 1..Len(TerminatedLines(got)) :
          TerminatedLines(got)[i] \in {DoneLine, CrLine}

(***************************************************************************)
(* C5, as claimed: getChatResponse returns the parsed response only if the *)
(* body carries no error field and the first choice's finish_reason is     *)
(* "stop"; a body that carries an error field makes it fail with that      *)
(* error's message, whatever the finish reason.                            *)
(***************************************************************************)
Answered == IsChat /\ Terminal /\ response # NoResponse

Body == JSONParse(Decode(response.bytes))

\* the finish_reason of the first choice of a body, undefined without one
FirstFinishReason(b) ==
    IF Nullish(Get(b, kChoices)) \/ Nullish(First(Get(b, kChoices))) THEN Undefined
    ELSE Get(First(Get(b, kChoices)), kFinishReason)

C5_Original ==
    Answered =>
        /\ pc = "done" => /\ Body.ok
                          /\ ~Has(Body.v, kError)
                          /\ FirstFinishReason(Body.v) = JStr(tStop)
                          /\ result = Body.v
        /\ (Body.ok /\ Has(Body.v, kError))
               => /\ pc = "failed"
                  /\ error = NewError(Get(Get(Body.v, kError), kMessage))
        /\ pc = "failed" => (error # NoError /\ result = Undefined)

(***************************************************************************)
(* C5, amended: getChatResponse returns the parsed response only if the    *)
(* body's error field is absent or falsy (null, false, 0, "") and the      *)
(* first choice's finish_reason is "stop"; in every other outcome it       *)
(* fails, also with message.content populated; a body whose error field    *)
(* is truthy makes it fail with that error's message, whatever the finish  *)
(* reason.                                                                 *)
(***************************************************************************)
C5_AbnormalCompletion ==
    Answered =>
        /\ pc = "done" => /\ Body.ok
                          /\ ~Truthy(Get(Body.v, kError))
                          /\ FirstFinishReason(Body.v) = JStr(tStop)
                          /\ result = Body.v
        /\ (Body.ok /\ Truthy(Get(Body.v, kError)))
               => /\ pc = "failed"
                  /\ error = NewError(Get(Get(Body.v, kError), kMessage))
        /\ pc = "failed" => (error # NoError /\ result = Undefined)

\* a body without error whose first choice stopped for length, its content
\* populated: the call failed
C5_Witness ==
    /\ Answered
    /\ pc = "failed"
    /\ Body.ok
    /\ ~Has(Body.v, kError)
    /\ FirstFinishReason(Body.v) = JStr(tLength)
    /\ Truthy(Get(Get(First(Get(Body.v, kChoices)), kMessage), kContent))
    /\ error = NewError(JStr(tChatStopped \o tLength))

(***************************************************************************)
(* C6: in the body of the request of either method, every payload field    *)
(* has the value the config carries for it when the config carries the     *)
(* field (one carried as undefined is left out of the body) and the        *)
(* documented default otherwise; the streaming body carries stream = true  *)
(* whatever the config; and without overrides the body is a fixed text     *)
(* around the messages.                                                    *)
(***************************************************************************)
DocumentedDefaultsText ==
    Quoted(kTemperature) \o <<":", "0", ".", "7", ",">>
    \o Quoted(kTopP) \o <<":", "1", ",">>
    \o Quoted(kFrequencyPenalty) \o <<":", "0", ",">>
    \o Quoted(kPresencePenalty) \o <<":", "0", ",">>
    \o Quoted(kMaxTokens) \o <<":", "6", "0", ",">>
    \o Quoted(kStop) \o <<":", "\"", "\"">>

DocumentedDefaults == JSONParse(<<"{">> \o DocumentedDefaultsText \o <<"}">>).v

DefaultedFields ==
    {kTemperature, kTopP, kFrequencyPenalty, kPresencePenalty, kMaxTokens, kStop}

BodyWithoutOverrides ==
    EncodeUTF8(<<"{">> \o Quoted(kMessages) \o <<":">> \o JSONStringify(messages)
               \o <<",">> \o DocumentedDefaultsText
               \o (IF IsStream THEN <<",">> \o Quoted(kStream) \o <<":", "t", "r", "u", "e">>
                   ELSE <<>>)
               \o <<"}">>)

Sent == JSONParse(Decode(request))

C6_DefaultOverrideMerge ==
    pc = "fetch" =>
        /\ Sent.ok
        /\ \A f \in DefaultedFields :
              Get(Sent.v, f) = IF Has(config, f) THEN Get(config, f)
                               ELSE Get(DocumentedDefaults, f)
        /\ Get(Sent.v, kMessages) = IF Has(config, kMessages) THEN Get(config, kMessages)
                                    ELSE messages
        /\ Get(Sent.v, kSeed) = Get(config, kSeed)
        /\ Get(Sent.v, kStream) = IF IsStream THEN JBool(TRUE) ELSE Get(config, kStream)
        /\ (config.t # "obj" \/ config.members = <<>>) => request = BodyWithoutOverrides

\* a streaming request in flight whose config overrides the temperature and
\* carries stream: false
C6_Witness ==
    /\ IsStream
    /\ pc = "fetch"
    /\ Has(config, kTemperature)
    /\ Has(config, kStream)
    /\ Get(Sent.v, kTemperature) = JNum(<<"0">>)
    /\ Get(Sent.v, kTopP) = JNum(<<"1">>)

(***************************************************************************)
(* C7: the events the consumer has received are the valid frames that      *)
(* precede the first fatal frame among the terminated lines, a fatal frame *)
(* being one that is not valid JSON, carries error.message, or whose       *)
(* choices is no array; when the stream has ended or the loop has thrown,  *)
(* they are all of them.                                                   *)
(***************************************************************************)
Fatal(frame) ==
    \/ ~JSONParse(frame).ok
    \/ CarriesErrorMessage(JSONParse(frame).v)
    \/ ~IsArray(Get(JSONParse(frame).v, kChoices))

\* how many frames precede the first fatal one
ValidPrefix(frames) ==
    LET IsFatal(i) == Fatal(frames[i])
        fatal == Indices(frames, {i \in 1..Len(frames) : IsFatal(i)})
    IN IF fatal = <<>> THEN Len(frames) ELSE fatal[1] - 1

C7_PrefixBeforeFailure ==
    IsStream =>
        /\ Len(received) <= ValidPrefix(FramesGot)
        /\ received = EventsOf(FirstFrames(Len(received)))
        /\ (pc = "done" \/ LoopThrew) => Len(received) = ValidPrefix(FramesGot)

\* the same with a fatal frame being one the code throws on: one whose
\* error.message is truthy, whatever else it carries
FatalTruthy(frame) ==
    \/ ~JSONParse(frame).ok
    \/ Truthy(Get(Get(JSONParse(frame).v, kError), kMessage))
    \/ ~IsArray(Get(JSONParse(frame).v, kChoices))

ValidPrefixTruthy(frames) ==
    LET IsFatal(i) == FatalTruthy(frames[i])
        fatal == Indices(frames, {i \in 1..Len(frames) : IsFatal(i)})
    IN IF fatal = <<>> THEN Len(frames) ELSE fatal[1] - 1

PrefixBeforeTruthyFailure ==
    IsStream =>
        /\ Len(received) <= ValidPrefixTruthy(FramesGot)
        /\ received = EventsOf(FirstFrames(Len(received)))
        /\ (pc = "done" \/ LoopThrew) => Len(received) = ValidPrefixTruthy(FramesGot)

(***************************************************************************)
(* C8: after every chunk, unfinishedLine is what follows the last "\n" of  *)
(* the text decoded so far and holds no "\n"; the text handed to split so  *)
(* far, followed by unfinishedLine, is the concatenation of the chunks     *)
(* decoded so far; what is handed to split ends with a "\n", and no more   *)
(* matches are taken than lines have been terminated.                      *)
(***************************************************************************)
C8_UnfinishedLineBuffer ==
    IsStream =>
        /\ unfinishedLine = Residual(got)
        /\ \A i \in 1..Len(unfinishedLine) : unfinishedLine[i] # "\n"
        /\ fed \o unfinishedLine = got
        /\ WellFormed(fed)
        /\ nParsed + Len(matches) <= Len(TerminatedLines(got))

\* a chunk that ended inside a line, behind lines with matches
C8_Witness ==
    /\ IsStream
    /\ pc = "loop"
    /\ matches # <<>>
    /\ unfinishedLine # <<>>
    /\ fed # <<>>
    /\ pos < Len(text)

(***************************************************************************)
(* C9: when the stream ends while unfinishedLine is not empty, what is     *)
(* left is never matched, parsed or yielded, be it a valid frame or an     *)
(* error frame, and the generator completes without an error: the events   *)
(* are those of the terminated lines, one fewer than the stream has frames *)
(* when its last frame lacks its terminator.                               *)
(***************************************************************************)
C9_TrailingDataDropped ==
    (IsStream /\ pc = "done") =>
        /\ error = NoError
        /\ pos = Len(text)
        /\ unfinishedLine = Residual(got)
        /\ nParsed = Len(FramesGot)
        /\ received = EventsOf(FramesGot)
        /\ Len(received) = Len(FramesOf(Append(TerminatedLines(got), Residual(got))))
                           - (IF IsDataFrame(Residual(got)) THEN 1 ELSE 0)

\* a stream of an event and an unterminated error frame, read to its end
C9_Witness ==
    /\ IsStream
    /\ pc = "done"
    /\ Len(received) = 1
    /\ unfinishedLine = DataLine(ErrorFrame)

(***************************************************************************)
(* C10: with the consumer pulling and the transport answering, the         *)
(* generator ends: it completes at the end of the stream and fails         *)
(* otherwise; once ended it yields nothing more and reads nothing more;    *)
(* and a response that is not ok, or has no body, makes it fail before a   *)
(* chunk is read or an event yielded.                                      *)
(***************************************************************************)
C10_Ended ==
    IsStream =>
        /\ (response # NoResponse /\ (~response.ok \/ ~response.body))
               => (pc = "failed" /\ pos = 0 /\ got = <<>> /\ received = <<>>)
        /\ pc = "done" => (pos = Len(text) /\ error = NoError)
        /\ pc = "failed" => error # NoError
        /\ Terminal => ~pulling

C10_Finite ==
    /\ []C10_Ended
    /\ [][Terminal => (pc' = pc /\ received' = received /\ pos' = pos)]_vars
    /\ (IsStream => <>Terminal)

\* the read of a stream that has yielded an event fails as the signal fires
C10_Witness ==
    /\ IsStream
    /\ pc = "failed"
    /\ error = AbortError
    /\ received # <<>>
    /\ pos < Len(text)
====
